---- MODULE Spec2Model ----
(***************************************************************************)
(* Model of the reflection-based dependency injector (src/injector.go).    *)
(*                                                                         *)
(* The registry is the pair of maps singletons / transients keyed by       *)
(* reflect.Type.  AddSingleton, AddTransient and GetInstance are atomic    *)
(* calls; Invoke is followed statement by statement (resolution loop, the  *)
(* call of fn, the deferred releasers) so that the order of its effects    *)
(* is visible.  A Go run-time panic is the outcome "panic".                *)
(***************************************************************************)
EXTENDS Integers, Sequences, FiniteSets, TLC

(* ---------------------------- bounds ----------------------------------- *)

\* number of instances the registered factories may produce in one run
MaxInst == 3
\* largest number of declared parameters of a function given to Invoke
MaxParams == 2
\* number of distinct user-built values of one type
NumUserVals == 2
\* largest number of leading arguments given to Invoke
MaxArgs == 1

(* ---------------------------- errors ----------------------------------- *)

ErrNil == "nil"
ErrTypeAlreadyRegistered == "type already registered"
ErrTypeNotRegistered == "type not registered"
ErrInvalidFactory == "invalid factory"
ErrNotInvokable == "not invokable"
\* a run-time panic raised by reflect or by a nil dereference
Panic == "panic"

(* ------------------------ types and values ----------------------------- *)

\* reflect.TypeOf(nil): the nil reflect.Type, a legal map key
NilType == "<nil>"
\* the type of every function value (only its Kind is looked at)
FuncType == "func"
\* the struct / pointer types of the model; "closableObject" has Close()
Types == {"closableObject", "simpleObject"}
\* the types that implement io.Closer
Closers == {"closableObject"}
\* *gin.Engine and *gin.Context
EngineType == "ginEngine"
ContextType == "ginContext"

None == [kind |-> "none", type |-> NilType, n |-> 0, in |-> <<>>, out |-> <<>>]
\* the untyped nil interface value
NilValue == [kind |-> "nil", type |-> NilType, n |-> 0, in |-> <<>>, out |-> <<>>]
\* a value built by the caller; n is its identity
Obj(t, n) == [kind |-> "obj", type |-> t, n |-> n, in |-> <<>>, out |-> <<>>]
\* the instance produced by the n-th factory call of the run: n is its
\* identity, out the signature of the factory that built it
Made(factory, n) == [kind |-> "made", type |-> factory.out[1], n |-> n, in |-> <<>>,
                     out |-> factory.out]
\* a function value with declared parameter types in and return types out
Func(in, out) == [kind |-> "func", type |-> FuncType, n |-> 0, in |-> in, out |-> out]

UserVals == {Obj(t, n) : t \in Types, n \in 1..NumUserVals}

\* reflect.TypeOf(v)
TypeOf(v) == IF v.kind = "nil" THEN NilType ELSE v.type

\* the instance is an io.Closer
IsCloser(v) == v.type \in Closers

SeqsUpTo(S, n) == UNION {[1..k -> S] : k \in 0..n}

\* the values offered to AddTransient: nil, non-callables, and zero-argument
\* functions declaring zero, one or two return values
FactoryOuts == {<<>>} \cup {<<t>> : t \in Types} \cup {<<t, "simpleObject">> : t \in Types}
FactoryVals == {NilValue, Obj("simpleObject", 1)} \cup {Func(<<>>, o) : o \in FactoryOuts}

\* the values offered to AddSingleton
SingletonVals == {NilValue} \cup UserVals

\* the values offered to Invoke as fn: nil, a non-callable, and functions of up
\* to MaxParams parameters returning nothing or one value
FnOuts == {<<>>, <<"simpleObject">>}
FnVals == {NilValue, Obj("simpleObject", 1)}
          \cup {Func(i, o) : i \in SeqsUpTo(Types, MaxParams), o \in FnOuts}

\* the leading arguments offered to Invoke
ArgVals == {Obj("simpleObject", 1)}
ArgSeqs == SeqsUpTo(ArgVals, MaxArgs)

(* ----------------------------- state ----------------------------------- *)

VARIABLES
    singletons,    \* Injector.singletons : type -> instance
    transients,    \* Injector.transients : type -> factory
    nextId,        \* identity of the next instance a factory will build
    factoryCalls,  \* type -> number of calls of the factory registered for it
    returned,      \* made instance -> number of resolutions that returned it
    closed,        \* made instance -> number of Close() calls on it
    pc,            \* position of the caller
    out,           \* what the last AddSingleton/AddTransient/GetInstance returned
    frame,         \* the running Invoke call
    parked,        \* the other goroutine, while it is not the one stepping
    router,        \* the Router built by NewRouter
    routes,        \* the routes of the engine router.g: <<verb, path>> -> handler
    request,       \* the request the engine is dispatching
    mw,            \* the JWT middleware: issuer, audience, secret
    ctx            \* the gin.Context of the request in the middleware

registry == <<singletons, transients>>
heap == <<nextId, factoryCalls, returned, closed>>
others == <<parked, router, routes, request, mw, ctx>>
vars == <<singletons, transients, nextId, factoryCalls, returned, closed, pc, out, frame,
          parked, router, routes, request, mw, ctx>>

\* releaser functions: func() {} and func() { i.(io.Closer).Close() }
NoopReleaser == [kind |-> "noop", inst |-> None]
CloseReleaser(i) == [kind |-> "close", inst |-> i]

NoOut == [op |-> "none", arg |-> None, t |-> NilType, err |-> ErrNil,
          instance |-> None, releaser |-> NoopReleaser]

\* the results slice of Invoke: nil, or one entry per return value of fn
NilResults == [isNil |-> TRUE, vals |-> <<>>]
Results(vals) == [isNil |-> FALSE, vals |-> vals]

\* fn, args: the arguments of Invoke; values: the argument list built so far;
\* deferred: the stack of deferred releasers; tried: the types GetInstance was
\* asked for; closeOrder: the instances closed by the deferred releasers, in
\* order; calls: the argument lists fn was called with; fnReturned: fn has
\* returned normally; results, err: what Invoke returns
NoFrame == [fn |-> None, args |-> <<>>, values |-> <<>>, deferred |-> <<>>,
            tried |-> <<>>, closeOrder |-> <<>>, calls |-> <<>>,
            fnReturned |-> FALSE, results |-> NilResults, err |-> ErrNil]

\* no second goroutine: the program is still single-threaded
NotServing == [pc |-> "off", frame |-> NoFrame]

\* no Router built
NoRouter == [bound |-> FALSE, g |-> None]

NoRequest == [verb |-> "", path |-> "", c |-> None, found |-> FALSE, invokes |-> 0]

NoMiddleware == [built |-> FALSE, issuer |-> "", audience |-> "", secret |-> ""]

\* the credential kinds of a request: no Authorization header
NoBearer == [kind |-> "none", iss |-> "", aud |-> "", key |-> "", expired |-> FALSE]

\* no token
NoToken == [kind |-> "notoken", iss |-> "", aud |-> "", key |-> "", expired |-> FALSE]

\* a request context before any handler ran: status 200, not aborted, the
\* handlers after the middleware not run (downstream counts their runs, seen
\* is the token they found in the context)
NewContext(bearer) == [bearer |-> bearer, token |-> NoToken, status |-> 200,
                       aborted |-> FALSE, downstream |-> 0, seen |-> NoToken]

\* NewInjector
Init ==
    /\ singletons = <<>>
    /\ transients = <<>>
    /\ nextId = 1
    /\ factoryCalls = [t \in Types \cup {EngineType} |-> 0]
    /\ returned = <<>>
    /\ closed = <<>>
    /\ pc = "idle"
    /\ out = NoOut
    /\ frame = NoFrame
    /\ parked = NotServing
    /\ router = NoRouter
    /\ routes = <<>>
    /\ request = NoRequest
    /\ mw = NoMiddleware
    /\ ctx = NewContext(NoBearer)

\* m[k] = v added to map m
MapPut(m, k, v) == [x \in DOMAIN m \cup {k} |-> IF x = k THEN v ELSE m[x]]

\* typeIsRegistered that forgets to look at the singletons map
typeIsRegisteredTransientsOnly(t) == t \in DOMAIN transients

typeIsRegistered(t) == t \in DOMAIN singletons \/ t \in DOMAIN transients

(* -------------------------- registration ------------------------------- *)

\* AddSingleton without the typeIsRegistered test: a second call overwrites
AddSingletonOverwrite(instance) ==
    /\ pc = "idle"
    /\ singletons' = MapPut(singletons, TypeOf(instance), instance)
    /\ out' = [NoOut EXCEPT !.op = "AddSingleton", !.arg = instance,
                            !.t = TypeOf(instance)]
    /\ pc' = "returned"
    /\ UNCHANGED <<transients, heap, frame, others>>

\* AddSingleton that stores the instance in a newly made map
AddSingletonResets(instance) ==
    /\ pc = "idle"
    /\ LET t == TypeOf(instance) IN
       IF typeIsRegistered(t)
       THEN /\ out' = [NoOut EXCEPT !.op = "AddSingleton", !.arg = instance, !.t = t,
                                    !.err = ErrTypeAlreadyRegistered]
            /\ UNCHANGED registry
       ELSE /\ singletons' = MapPut(<<>>, t, instance)
            /\ out' = [NoOut EXCEPT !.op = "AddSingleton", !.arg = instance, !.t = t]
            /\ UNCHANGED transients
    /\ pc' = "returned"
    /\ UNCHANGED <<heap, frame, others>>

AddSingleton(instance) ==
    /\ pc = "idle"
    /\ LET t == TypeOf(instance) IN
       IF typeIsRegistered(t)
       THEN /\ out' = [NoOut EXCEPT !.op = "AddSingleton", !.arg = instance, !.t = t,
                                    !.err = ErrTypeAlreadyRegistered]
            /\ UNCHANGED registry
       ELSE /\ singletons' = MapPut(singletons, t, instance)
            /\ out' = [NoOut EXCEPT !.op = "AddSingleton", !.arg = instance, !.t = t]
            /\ UNCHANGED transients
    /\ pc' = "returned"
    /\ UNCHANGED <<heap, frame, others>>

\* AddTransient that looks for an earlier factory only, not for a singleton
AddTransientOverSingleton(factory) ==
    /\ pc = "idle"
    /\ LET base == [NoOut EXCEPT !.op = "AddTransient", !.arg = factory] IN
       IF factory.kind # "func" \/ Len(factory.out) = 0
       THEN /\ out' = [base EXCEPT !.err = IF factory.kind = "obj"
                                           THEN ErrInvalidFactory ELSE Panic]
            /\ UNCHANGED registry
       ELSE LET t == factory.out[1] IN
            IF t \in DOMAIN transients
            THEN /\ out' = [base EXCEPT !.t = t, !.err = ErrTypeAlreadyRegistered]
                 /\ UNCHANGED registry
            ELSE /\ transients' = MapPut(transients, t, factory)
                 /\ out' = [base EXCEPT !.t = t]
                 /\ UNCHANGED singletons
    /\ pc' = "returned"
    /\ UNCHANGED <<heap, frame, others>>

AddTransient(factory) ==
    /\ pc = "idle"
    /\ LET base == [NoOut EXCEPT !.op = "AddTransient", !.arg = factory] IN
       IF factory.kind = "nil"
       THEN \* f is the nil reflect.Type: f.Kind() dereferences nil
            /\ out' = [base EXCEPT !.err = Panic]
            /\ UNCHANGED registry
       ELSE IF factory.kind # "func"
       THEN /\ out' = [base EXCEPT !.err = ErrInvalidFactory]
            /\ UNCHANGED registry
       ELSE IF Len(factory.out) = 0
       THEN \* f.Out(0) is out of range
            /\ out' = [base EXCEPT !.err = Panic]
            /\ UNCHANGED registry
       ELSE LET t == factory.out[1] IN
            IF typeIsRegistered(t)
            THEN /\ out' = [base EXCEPT !.t = t, !.err = ErrTypeAlreadyRegistered]
                 /\ UNCHANGED registry
            ELSE /\ transients' = MapPut(transients, t, factory)
                 /\ out' = [base EXCEPT !.t = t]
                 /\ UNCHANGED singletons
    /\ pc' = "returned"
    /\ UNCHANGED <<heap, frame, others>>

(* --------------------------- resolution -------------------------------- *)

\* reflect.ValueOf(factory).Call(nil): the factory builds a new object
CallFactory(factory) == Made(factory, nextId)

\* GetInstance that keeps the instance its factory built and hands it out again
GetInstanceCached(t) ==
    IF t \in DOMAIN singletons
    THEN [instance |-> singletons[t], releaser |-> NoopReleaser, err |-> ErrNil,
          factory |-> None]
    ELSE IF t \in DOMAIN transients
    THEN LET old == {x \in DOMAIN returned : x.type = t}
             i == IF old = {} THEN CallFactory(transients[t])
                  ELSE CHOOSE x \in old : TRUE
         IN [instance |-> i,
             releaser |-> IF IsCloser(i) THEN CloseReleaser(i) ELSE NoopReleaser,
             err |-> ErrNil,
             factory |-> IF old = {} THEN transients[t] ELSE None]
    ELSE [instance |-> None, releaser |-> NoopReleaser, err |-> ErrTypeNotRegistered,
          factory |-> None]

\* GetInstance that returns a nil instance and no error for an unknown type
GetInstanceNilForMissing(t) ==
    IF t \in DOMAIN singletons
    THEN [instance |-> singletons[t], releaser |-> NoopReleaser, err |-> ErrNil,
          factory |-> None]
    ELSE IF t \in DOMAIN transients
    THEN LET i == CallFactory(transients[t]) IN
         [instance |-> i,
          releaser |-> IF IsCloser(i) THEN CloseReleaser(i) ELSE NoopReleaser,
          err |-> ErrNil, factory |-> transients[t]]
    ELSE [instance |-> None, releaser |-> NoopReleaser, err |-> ErrNil,
          factory |-> None]

\* GetInstance that gives a closing releaser for a singleton that is a Closer
GetInstanceClosesSingleton(t) ==
    IF t \in DOMAIN singletons
    THEN [instance |-> singletons[t],
          releaser |-> IF IsCloser(singletons[t]) THEN CloseReleaser(singletons[t])
                       ELSE NoopReleaser,
          err |-> ErrNil, factory |-> None]
    ELSE IF t \in DOMAIN transients
    THEN LET i == CallFactory(transients[t]) IN
         [instance |-> i,
          releaser |-> IF IsCloser(i) THEN CloseReleaser(i) ELSE NoopReleaser,
          err |-> ErrNil, factory |-> transients[t]]
    ELSE [instance |-> None, releaser |-> NoopReleaser, err |-> ErrTypeNotRegistered,
          factory |-> None]

\* what GetInstance(t) returns, and the factory it called (kind "none": no call)
GetInstance(t) ==
    IF t \in DOMAIN singletons
    THEN [instance |-> singletons[t], releaser |-> NoopReleaser, err |-> ErrNil,
          factory |-> None]
    ELSE IF t \in DOMAIN transients
    THEN LET i == CallFactory(transients[t]) IN
         [instance |-> i,
          releaser |-> IF IsCloser(i) THEN CloseReleaser(i) ELSE NoopReleaser,
          err |-> ErrNil, factory |-> transients[t]]
    ELSE [instance |-> None, releaser |-> NoopReleaser, err |-> ErrTypeNotRegistered,
          factory |-> None]

\* a factory call is possible while the run may still build instances
CanResolve(t) == t \in DOMAIN singletons \/ t \notin DOMAIN transients \/ nextId <= MaxInst

\* the effect of the resolution r of type t on the heap
Resolved(t, r) ==
    /\ nextId' = IF r.factory.kind = "func" THEN nextId + 1 ELSE nextId
    /\ factoryCalls' = IF r.factory.kind = "func"
                       THEN [factoryCalls EXCEPT ![t] = @ + 1] ELSE factoryCalls
    /\ returned' = IF r.instance.kind # "made" THEN returned
                   ELSE MapPut(returned, r.instance,
                               IF r.instance \in DOMAIN returned
                               THEN returned[r.instance] + 1 ELSE 1)
    /\ closed' = IF r.instance.kind # "made" \/ r.instance \in DOMAIN closed
                 THEN closed ELSE MapPut(closed, r.instance, 0)

\* calling a releaser function
Release(rel) ==
    IF rel.kind = "close"
    THEN closed' = MapPut(closed, rel.inst,
                          IF rel.inst \in DOMAIN closed THEN closed[rel.inst] + 1 ELSE 1)
    ELSE UNCHANGED closed

\* a direct call of GetInstance by the program
CallGetInstance(t) ==
    /\ pc = "idle"
    /\ CanResolve(t)
    /\ LET r == GetInstance(t) IN
       /\ out' = [NoOut EXCEPT !.op = "GetInstance", !.t = t, !.err = r.err,
                               !.instance = r.instance, !.releaser = r.releaser]
       /\ Resolved(t, r)
    /\ pc' = "returned"
    /\ UNCHANGED <<registry, frame, others>>

\* the program calls the releaser GetInstance gave it
CallReleaser ==
    /\ pc = "returned"
    /\ out.op = "GetInstance"
    /\ out.err = ErrNil
    /\ Release(out.releaser)
    /\ pc' = "released"
    /\ UNCHANGED <<registry, nextId, factoryCalls, returned, out, frame, others>>

\* the program goes on after a call has returned
Continue ==
    /\ pc \in {"returned", "released"}
    /\ pc' = "idle"
    /\ out' = NoOut
    /\ UNCHANGED <<registry, heap, frame, others>>

(* ----------------------------- Invoke --------------------------------- *)

\* the k-th value fn returns when called with the argument list values
FnResult(fn, values, k) == [ret |-> k, type |-> fn.out[k], from |-> values]

\* reflect.Value.Call accepts the argument list: as many values as declared
\* parameters, each of the declared type
Callable(fn, values) ==
    /\ Len(values) = Len(fn.in)
    /\ \A k \in 1..Len(values) : TypeOf(values[k]) = fn.in[k]

\* the entry of Invoke that forgets the initial arguments
InvokeEnterDropArgs(fn, args) ==
    LET base == [NoFrame EXCEPT !.fn = fn, !.args = args] IN
    IF fn.kind = "nil"
    THEN /\ frame' = [base EXCEPT !.err = Panic]
         /\ pc' = "done"
    ELSE IF fn.kind # "func"
    THEN /\ frame' = [base EXCEPT !.err = ErrNotInvokable]
         /\ pc' = "done"
    ELSE /\ frame' = base
         /\ pc' = "loop"

\* the entry of Invoke(fn, args...): the Kind check and the collection of the
\* initial arguments
InvokeEnter(fn, args) ==
    LET base == [NoFrame EXCEPT !.fn = fn, !.args = args] IN
    IF fn.kind = "nil"
    THEN \* f is the nil reflect.Type: f.Kind() dereferences nil
         /\ frame' = [base EXCEPT !.err = Panic]
         /\ pc' = "done"
    ELSE IF fn.kind # "func"
    THEN /\ frame' = [base EXCEPT !.err = ErrNotInvokable]
         /\ pc' = "done"
    ELSE /\ frame' = [base EXCEPT !.values = args]
         /\ pc' = "loop"

\* a call Invoke(fn, args...) by the program
Invoke(fn, args) ==
    /\ pc = "idle"
    /\ InvokeEnter(fn, args)
    /\ UNCHANGED <<registry, heap, out, others>>

\* the loop turn with releaser() called at once instead of deferred
InvokeResolveEager ==
    /\ pc = "loop"
    /\ Len(frame.values) < Len(frame.fn.in)
    /\ LET t == frame.fn.in[Len(frame.values) + 1]
           r == GetInstance(t)
       IN /\ CanResolve(t)
          /\ nextId' = IF r.factory.kind = "func" THEN nextId + 1 ELSE nextId
          /\ factoryCalls' = IF r.factory.kind = "func"
                             THEN [factoryCalls EXCEPT ![t] = @ + 1] ELSE factoryCalls
          /\ returned' = IF r.instance.kind # "made" THEN returned
                         ELSE MapPut(returned, r.instance, 1)
          /\ closed' = IF r.instance.kind # "made" THEN closed
                       ELSE MapPut(closed, r.instance,
                                   IF r.releaser.kind = "close" THEN 1 ELSE 0)
          /\ IF r.err # ErrNil
             THEN /\ frame' = [frame EXCEPT !.tried = Append(@, t), !.err = r.err]
                  /\ pc' = "unwind"
             ELSE /\ frame' = [frame EXCEPT
                         !.tried = Append(@, t),
                         !.values = Append(@, r.instance),
                         !.closeOrder = IF r.releaser.kind = "close"
                                        THEN Append(@, r.instance) ELSE @]
                  /\ pc' = "loop"
    /\ UNCHANGED <<registry, out, others>>

\* the loop turn that returns the error without running the deferred calls
InvokeResolveLeak ==
    /\ pc = "loop"
    /\ Len(frame.values) < Len(frame.fn.in)
    /\ LET t == frame.fn.in[Len(frame.values) + 1]
           r == GetInstance(t)
       IN /\ CanResolve(t)
          /\ Resolved(t, r)
          /\ IF r.err # ErrNil
             THEN /\ frame' = [frame EXCEPT !.tried = Append(@, t), !.err = r.err,
                                            !.deferred = <<>>]
                  /\ pc' = "unwind"
             ELSE /\ frame' = [frame EXCEPT !.tried = Append(@, t),
                                            !.values = Append(@, r.instance),
                                            !.deferred = Append(@, r.releaser)]
                  /\ pc' = "loop"
    /\ UNCHANGED <<registry, out, others>>

\* the loop turn that notes the error and goes on with the next parameter
InvokeResolveNoAbort ==
    /\ pc = "loop"
    /\ Len(frame.values) < Len(frame.fn.in)
    /\ LET t == frame.fn.in[Len(frame.values) + 1]
           r == GetInstance(t)
       IN /\ CanResolve(t)
          /\ Resolved(t, r)
          /\ frame' = [frame EXCEPT !.tried = Append(@, t),
                                    !.values = Append(@, r.instance),
                                    !.deferred = Append(@, r.releaser),
                                    !.err = IF r.err # ErrNil THEN r.err ELSE @]
          /\ pc' = "loop"
    /\ UNCHANGED <<registry, out, others>>

\* one turn of the loop over the remaining parameters
InvokeResolve ==
    /\ pc = "loop"
    /\ Len(frame.values) < Len(frame.fn.in)
    /\ LET t == frame.fn.in[Len(frame.values) + 1]
           r == GetInstance(t)
       IN /\ CanResolve(t)
          /\ Resolved(t, r)
          /\ IF r.err # ErrNil
             THEN /\ frame' = [frame EXCEPT !.tried = Append(@, t), !.err = r.err]
                  /\ pc' = "unwind"
             ELSE /\ frame' = [frame EXCEPT !.tried = Append(@, t),
                                            !.values = Append(@, r.instance),
                                            !.deferred = Append(@, r.releaser)]
                  /\ pc' = "loop"
    /\ UNCHANGED <<registry, out, others>>

\* the call of fn with the releasers run after it by hand instead of deferred:
\* a panic of fn leaves Invoke before any of them runs
InvokeCallNoDefer ==
    /\ pc = "loop"
    /\ Len(frame.values) >= Len(frame.fn.in)
    /\ IF ~Callable(frame.fn, frame.values)
       THEN frame' = [frame EXCEPT !.err = Panic, !.deferred = <<>>]
       ELSE \E fnPanics \in BOOLEAN :
              IF fnPanics
              THEN frame' = [frame EXCEPT !.calls = Append(@, frame.values),
                                          !.err = Panic, !.deferred = <<>>]
              ELSE frame' = [frame EXCEPT
                     !.calls = Append(@, frame.values),
                     !.fnReturned = TRUE,
                     !.results = Results([k \in 1..Len(frame.fn.out) |->
                                            FnResult(frame.fn, frame.values, k)])]
    /\ pc' = "unwind"
    /\ UNCHANGED <<registry, heap, out, others>>

\* reflect.ValueOf(fn).Call(values) and the collection of the results; fn is
\* the caller's code: it returns or panics
InvokeCall ==
    /\ pc = "loop"
    /\ Len(frame.values) >= Len(frame.fn.in)
    /\ IF ~Callable(frame.fn, frame.values)
       THEN frame' = [frame EXCEPT !.err = Panic]
       ELSE \E fnPanics \in BOOLEAN :
              IF fnPanics
              THEN frame' = [frame EXCEPT !.calls = Append(@, frame.values),
                                          !.err = Panic]
              ELSE frame' = [frame EXCEPT
                     !.calls = Append(@, frame.values),
                     !.fnReturned = TRUE,
                     !.results = Results([k \in 1..Len(frame.fn.out) |->
                                            FnResult(frame.fn, frame.values, k)])]
    /\ pc' = "unwind"
    /\ UNCHANGED <<registry, heap, out, others>>

\* deferred calls run first deferred first
DeferredOrderFifo(deferred) == 1

\* the deferred calls run when Invoke returns or panics, last deferred first
DeferredOrder(deferred) == Len(deferred)

InvokeDeferred ==
    /\ pc = "unwind"
    /\ frame.deferred # <<>>
    /\ LET k == DeferredOrder(frame.deferred)
           rel == frame.deferred[k]
       IN /\ Release(rel)
          /\ frame' = [frame EXCEPT
                 !.deferred = [x \in 1..(Len(@) - 1) |-> IF x < k THEN @[x] ELSE @[x + 1]],
                 !.closeOrder = IF rel.kind = "close" THEN Append(@, rel.inst) ELSE @]
    /\ UNCHANGED <<registry, nextId, factoryCalls, returned, pc, out, others>>

\* Invoke returns to its caller (or the panic leaves it)
InvokeReturn ==
    /\ pc = "unwind"
    /\ frame.deferred = <<>>
    /\ pc' = "done"
    /\ UNCHANGED <<registry, heap, out, frame, others>>

\* the program goes on after Invoke
InvokeContinue ==
    /\ pc = "done"
    /\ pc' = "idle"
    /\ frame' = NoFrame
    /\ UNCHANGED <<registry, heap, out, others>>

Next ==
    \/ \E v \in SingletonVals : AddSingleton(v)
    \/ \E v \in FactoryVals : AddTransient(v)
    \/ \E t \in Types \cup {NilType} : CallGetInstance(t)
    \/ CallReleaser
    \/ Continue
    \/ \E fn \in FnVals, args \in ArgSeqs : Invoke(fn, args)
    \/ InvokeResolve
    \/ InvokeCall
    \/ InvokeDeferred
    \/ InvokeReturn
    \/ InvokeContinue

Spec == Init /\ [][Next]_vars

(* ----------------------------- Router ---------------------------------- *)

\* largest number of routes registered on one engine
MaxRoutes == 2

Verbs == {"GET", "POST", "PUT", "DELETE", "PATCH", "OPTIONS", "HEAD"}
Paths == {"/test"}

\* the handlers given to the Router: func(c *gin.Context) and
\* func(c *gin.Context, o simpleObject)
Handlers == {Func(<<ContextType>>, <<>>), Func(<<ContextType, "simpleObject">>, <<>>)}

\* the values registered before a Router is built: the engine, a dependency
RouterSingletons == {Obj(EngineType, 1), Obj("simpleObject", 1)}
\* an engine registered as a factory
RouterFactories == {Func(<<>>, <<EngineType>>)}

\* the *gin.Context the engine makes for a request
RequestContext == Obj(ContextType, 1)

\* NewRouter that does not look at the error of GetInstance
NewRouterIgnoresError ==
    /\ pc = "idle"
    /\ CanResolve(EngineType)
    /\ LET r == GetInstance(EngineType) IN
       /\ Resolved(EngineType, r)
       /\ out' = [NoOut EXCEPT !.op = "NewRouter", !.t = EngineType,
                               !.instance = r.instance]
       /\ router' = [bound |-> TRUE, g |-> r.instance]
       /\ routes' = IF router.bound /\ router.g = r.instance THEN routes ELSE <<>>
    /\ pc' = "returned"
    /\ UNCHANGED <<registry, frame, parked, request, mw, ctx>>

\* NewRouter(di): the engine is resolved from the injector; a Router is
\* returned only when that succeeds.  routes follows the engine the Router
\* is bound to: another engine instance has no routes yet.
NewRouter ==
    /\ pc = "idle"
    /\ CanResolve(EngineType)
    /\ LET r == GetInstance(EngineType) IN
       /\ Resolved(EngineType, r)
       /\ IF r.err # ErrNil
          THEN /\ out' = [NoOut EXCEPT !.op = "NewRouter", !.t = EngineType,
                                       !.err = r.err]
               /\ UNCHANGED <<router, routes>>
          ELSE /\ out' = [NoOut EXCEPT !.op = "NewRouter", !.t = EngineType,
                                       !.instance = r.instance]
               /\ router' = [bound |-> TRUE, g |-> r.instance]
               /\ routes' = IF router.bound /\ router.g = r.instance
                            THEN routes ELSE <<>>
    /\ pc' = "returned"
    /\ UNCHANGED <<registry, frame, parked, request, mw, ctx>>

\* r.g.Handle(verb, path, closure over handler); the engine panics when the
\* route exists already
Handle(verb, path, handler) ==
    /\ pc = "idle"
    /\ router.bound
    /\ Cardinality(DOMAIN routes) < MaxRoutes
    /\ IF <<verb, path>> \in DOMAIN routes
       THEN /\ out' = [NoOut EXCEPT !.op = verb, !.t = path, !.arg = handler,
                                    !.err = Panic]
            /\ UNCHANGED routes
       ELSE /\ out' = [NoOut EXCEPT !.op = verb, !.t = path, !.arg = handler]
            /\ routes' = MapPut(routes, <<verb, path>>, handler)
    /\ pc' = "returned"
    /\ UNCHANGED <<registry, heap, frame, parked, router, request, mw, ctx>>

GET(path, handler) == Handle("GET", path, handler)
POST(path, handler) == Handle("POST", path, handler)
PUT(path, handler) == Handle("PUT", path, handler)
DELETE(path, handler) == Handle("DELETE", path, handler)
PATCH(path, handler) == Handle("PATCH", path, handler)
OPTIONS(path, handler) == Handle("OPTIONS", path, handler)
HEAD(path, handler) == Handle("HEAD", path, handler)

\* Router.ServeHTTP: the engine looks the route up and, when it has one,
\* goes on to call the closure registered for it
ServeHTTP(verb, path) ==
    /\ pc = "idle"
    /\ router.bound
    /\ request' = [verb |-> verb, path |-> path, c |-> RequestContext,
                   found |-> <<verb, path>> \in DOMAIN routes, invokes |-> 0]
    /\ pc' = IF <<verb, path>> \in DOMAIN routes THEN "serving" ELSE "idle"
    /\ UNCHANGED <<registry, heap, out, frame, parked, router, routes, mw, ctx>>

\* the closure that calls Invoke without the request context
RouteHandlerNoContext ==
    /\ pc = "serving"
    /\ InvokeEnter(routes[<<request.verb, request.path>>], <<>>)
    /\ request' = [request EXCEPT !.invokes = @ + 1]
    /\ UNCHANGED <<registry, heap, out, parked, router, routes, mw, ctx>>

\* the closure func(c *gin.Context) { r.di.Invoke(handler, c) }: its call of
\* Invoke
RouteHandler ==
    /\ pc = "serving"
    /\ InvokeEnter(routes[<<request.verb, request.path>>], <<request.c>>)
    /\ request' = [request EXCEPT !.invokes = @ + 1]
    /\ UNCHANGED <<registry, heap, out, parked, router, routes, mw, ctx>>

\* Invoke has returned to the closure, which drops its results and returns
RouteHandlerReturn ==
    /\ pc = "done"
    /\ request.found
    /\ pc' = "idle"
    /\ frame' = NoFrame
    /\ request' = NoRequest
    /\ UNCHANGED <<registry, heap, out, parked, router, routes, mw, ctx>>

RouterNext ==
    \/ \E v \in RouterSingletons : AddSingleton(v)
    \/ \E v \in RouterFactories : AddTransient(v)
    \/ Continue
    \/ NewRouter
    \/ \E p \in Paths, h \in Handlers : GET(p, h)
    \/ \E p \in Paths, h \in Handlers : POST(p, h)
    \/ \E p \in Paths, h \in Handlers : PUT(p, h)
    \/ \E p \in Paths, h \in Handlers : DELETE(p, h)
    \/ \E p \in Paths, h \in Handlers : PATCH(p, h)
    \/ \E p \in Paths, h \in Handlers : OPTIONS(p, h)
    \/ \E p \in Paths, h \in Handlers : HEAD(p, h)
    \/ \E verb \in Verbs, p \in Paths : ServeHTTP(verb, p)
    \/ RouteHandler
    \/ InvokeResolve
    \/ InvokeCall
    \/ InvokeDeferred
    \/ InvokeReturn
    \/ RouteHandlerReturn

SpecRouter == Init /\ [][RouterNext]_vars

(* ------------------------- JWT middleware ------------------------------ *)

Issuers == {"issuer-a", "issuer-b"}
Audiences == {"audience-a", "audience-b"}
Secrets == {"secret-a", "secret-b"}

\* an Authorization header that holds a signed token
Jwt(iss, aud, key, expired) ==
    [kind |-> "jwt", iss |-> iss, aud |-> aud, key |-> key, expired |-> expired]
\* an Authorization header that holds something else
Garbage == [kind |-> "garbage", iss |-> "", aud |-> "", key |-> "", expired |-> FALSE]

Bearers == {NoBearer, Garbage}
           \cup {Jwt(i, a, k, e) : i \in Issuers, a \in Audiences, k \in Secrets,
                                   e \in BOOLEAN}

\* the jwt.Token Parse returns for a header
Verified(bearer) == [bearer EXCEPT !.kind = "token"]

\* jwt.Parse with WithIssuer, WithAudience, WithKey(HS256, secret),
\* WithValidate(true), WithVerify(true)
Parse(bearer, issuer, audience, secret) ==
    IF /\ bearer.kind = "jwt"
       /\ bearer.key = secret
       /\ ~bearer.expired
       /\ bearer.iss = issuer
       /\ bearer.aud = audience
    THEN [token |-> Verified(bearer), err |-> FALSE]
    ELSE [token |-> NoToken, err |-> TRUE]

\* c.Next(): the handlers after the middleware run, unless the chain is aborted
CNext(c) ==
    IF c.aborted THEN c
    ELSE [c EXCEPT !.downstream = @ + 1, !.seen = c.token]

\* JWT(issuer, audience, secret) builds the middleware
JWT(issuer, audience, secret) ==
    /\ pc = "idle"
    /\ mw' = [built |-> TRUE, issuer |-> issuer, audience |-> audience,
              secret |-> secret]
    /\ UNCHANGED <<registry, heap, pc, out, frame, parked, router, routes, request, ctx>>

\* the engine gets a request and is about to call the middleware
Request(bearer) ==
    /\ pc = "idle"
    /\ mw.built
    /\ ctx' = NewContext(bearer)
    /\ pc' = "middleware"
    /\ UNCHANGED <<registry, heap, out, frame, parked, router, routes, request, mw>>

\* the middleware that answers 401 without c.Abort()
JWTHandlerNoAbort ==
    /\ pc = "middleware"
    /\ IF ctx.bearer = NoBearer
       THEN ctx' = CNext(ctx)
       ELSE LET p == Parse(ctx.bearer, mw.issuer, mw.audience, mw.secret) IN
            IF p.err
            THEN ctx' = [ctx EXCEPT !.status = 401]
            ELSE ctx' = CNext([ctx EXCEPT !.token = p.token])
    /\ pc' = "after"
    /\ UNCHANGED <<registry, heap, out, frame, parked, router, routes, request, mw>>

\* the handler func(c *gin.Context) returned by JWT
JWTHandler ==
    /\ pc = "middleware"
    /\ IF ctx.bearer = NoBearer
       THEN ctx' = CNext(ctx)
       ELSE LET p == Parse(ctx.bearer, mw.issuer, mw.audience, mw.secret) IN
            IF p.err
            THEN ctx' = [ctx EXCEPT !.status = 401, !.aborted = TRUE]
            ELSE ctx' = CNext([ctx EXCEPT !.token = p.token])
    /\ pc' = "after"
    /\ UNCHANGED <<registry, heap, out, frame, parked, router, routes, request, mw>>

\* the middleware has returned: the engine runs the handlers after it that
\* have not run yet, unless the chain is aborted, and the request is served
EngineNext ==
    /\ pc = "after"
    /\ ctx' = IF ctx.downstream = 0 THEN CNext(ctx) ELSE ctx
    /\ pc' = "served"
    /\ UNCHANGED <<registry, heap, out, frame, parked, router, routes, request, mw>>

\* the engine is ready for the next request
RequestDone ==
    /\ pc = "served"
    /\ pc' = "idle"
    /\ UNCHANGED <<registry, heap, out, frame, parked, router, routes, request, mw, ctx>>

JWTNext ==
    \/ \E i \in Issuers, a \in Audiences, k \in Secrets : JWT(i, a, k)
    \/ \E b \in Bearers : Request(b)
    \/ JWTHandler
    \/ EngineNext
    \/ RequestDone

SpecJWT == Init /\ [][JWTNext]_vars

(* ---------------------- concurrent invocations ------------------------- *)

\* what the program registers before it serves
ConcSingletons == {Obj("simpleObject", 1)}
ConcFactories == {Func(<<>>, <<t>>) : t \in Types}
\* the functions the goroutines invoke
ConcFns == {Func(i, <<>>) : i \in SeqsUpTo(Types, MaxParams)}

\* registration happens at startup, before the second goroutine exists
StartupAddSingleton(v) ==
    /\ parked.pc = "off"
    /\ AddSingleton(v)

StartupAddTransient(factory) ==
    /\ parked.pc = "off"
    /\ AddTransient(factory)

\* the program starts to serve: from now on two goroutines call Invoke
Serve ==
    /\ pc = "idle"
    /\ parked.pc = "off"
    /\ parked' = [pc |-> "idle", frame |-> NoFrame]
    /\ UNCHANGED <<registry, heap, pc, out, frame, router, routes, request, mw, ctx>>

\* the scheduler lets the other goroutine run
Switch ==
    /\ parked.pc # "off"
    /\ pc' = parked.pc
    /\ frame' = parked.frame
    /\ parked' = [pc |-> pc, frame |-> frame]
    /\ UNCHANGED <<registry, heap, out, router, routes, request, mw, ctx>>

\* a goroutine calls Invoke(fn)
ConcInvoke(fn) ==
    /\ parked.pc # "off"
    /\ Invoke(fn, <<>>)

\* the call of fn that runs the releasers before fn instead of deferring them
InvokeCallBeginReleased ==
    /\ pc = "loop"
    /\ Len(frame.values) >= Len(frame.fn.in)
    /\ LET closers == {k \in 1..Len(frame.deferred) : frame.deferred[k].kind = "close"}
           insts == {frame.deferred[k].inst : k \in closers}
       IN /\ closed' = [i \in DOMAIN closed \cup insts |->
                          IF i \in insts
                          THEN (IF i \in DOMAIN closed THEN closed[i] ELSE 0) + 1
                          ELSE closed[i]]
          /\ IF ~Callable(frame.fn, frame.values)
             THEN /\ frame' = [frame EXCEPT !.err = Panic, !.deferred = <<>>]
                  /\ pc' = "unwind"
             ELSE /\ frame' = [frame EXCEPT !.calls = Append(@, frame.values),
                                            !.deferred = <<>>]
                  /\ pc' = "calling"
    /\ UNCHANGED <<registry, nextId, factoryCalls, returned, out, others>>

\* reflect.ValueOf(fn).Call(values): fn starts to run
InvokeCallBegin ==
    /\ pc = "loop"
    /\ Len(frame.values) >= Len(frame.fn.in)
    /\ IF ~Callable(frame.fn, frame.values)
       THEN /\ frame' = [frame EXCEPT !.err = Panic]
            /\ pc' = "unwind"
       ELSE /\ frame' = [frame EXCEPT !.calls = Append(@, frame.values)]
            /\ pc' = "calling"
    /\ UNCHANGED <<registry, heap, out, others>>

\* fn returns or panics, and its results are collected
InvokeCallEnd ==
    /\ pc = "calling"
    /\ \E fnPanics \in BOOLEAN :
          IF fnPanics
          THEN frame' = [frame EXCEPT !.err = Panic]
          ELSE frame' = [frame EXCEPT
                 !.fnReturned = TRUE,
                 !.results = Results([k \in 1..Len(frame.fn.out) |->
                                        FnResult(frame.fn, frame.values, k)])]
    /\ pc' = "unwind"
    /\ UNCHANGED <<registry, heap, out, others>>

ConcNext ==
    \/ \E v \in ConcSingletons : StartupAddSingleton(v)
    \/ \E v \in ConcFactories : StartupAddTransient(v)
    \/ Continue
    \/ Serve
    \/ Switch
    \/ \E fn \in ConcFns : ConcInvoke(fn)
    \/ InvokeResolve
    \/ InvokeCallBegin
    \/ InvokeCallEnd
    \/ InvokeDeferred
    \/ InvokeReturn
    \/ InvokeContinue

SpecConc == Init /\ [][ConcNext]_vars

(* ------------------------------ claims --------------------------------- *)

\* C1: after any sequence of AddSingleton and AddTransient calls, successful
\* or failing, no type is a key of both the singletons map and the
\* transients map.
C1_AtMostOneProvider == DOMAIN singletons \cap DOMAIN transients = {}

\* a registration has just been refused while both maps hold providers
C1_Witness ==
    /\ pc = "returned"
    /\ out.err = ErrTypeAlreadyRegistered
    /\ singletons # <<>>
    /\ transients # <<>>

\* the type has a provider
HasProvider(t) == t \in DOMAIN singletons \cup DOMAIN transients

\* the instance comes from the provider registered for t
ResolvesThrough(i, t) ==
    IF t \in DOMAIN singletons
    THEN i = singletons[t]
    ELSE i.kind = "made" /\ i.type = t /\ i.out = transients[t].out

\* every provider of the registry is still there, unchanged, after the step
ProvidersKept ==
    /\ \A t \in DOMAIN singletons :
          t \in DOMAIN singletons' /\ singletons'[t] = singletons[t]
    /\ \A t \in DOMAIN transients :
          t \in DOMAIN transients' /\ transients'[t] = transients[t]

\* the step is a call of AddSingleton or AddTransient for the type t
RegistersFor(t) ==
    /\ pc = "idle"
    /\ pc' = "returned"
    /\ \/ out'.op = "AddSingleton" /\ TypeOf(out'.arg) = t
       \/ /\ out'.op = "AddTransient"
          /\ out'.arg.kind = "func"
          /\ Len(out'.arg.out) >= 1
          /\ out'.arg.out[1] = t

\* the step is a direct call GetInstance(t)
Resolves(t) == pc = "idle" /\ pc' = "returned" /\ out'.op = "GetInstance" /\ out'.t = t

\* C2: a registration for a type that already has a provider (singleton or
\* transient, after a singleton or a transient) returns TypeAlreadyRegistered
\* and leaves both maps as they were; no step changes an existing provider,
\* and GetInstance of the type resolves through that provider.
C2_SecondRegistrationRefused ==
    [][/\ \A t \in Types \cup {NilType} :
            /\ (RegistersFor(t) /\ HasProvider(t))
                  => (out'.err = ErrTypeAlreadyRegistered /\ UNCHANGED registry)
            /\ (Resolves(t) /\ HasProvider(t))
                  => (out'.err = ErrNil /\ ResolvesThrough(out'.instance, t))
       /\ ProvidersKept]_vars

\* a factory for a type that has a singleton has just been refused
C2_Witness ==
    /\ pc = "returned"
    /\ out.op = "AddTransient"
    /\ out.err = ErrTypeAlreadyRegistered
    /\ out.t \in DOMAIN singletons

\* the step resolves the next parameter of the running Invoke, of type t
InvokeResolves(t) ==
    /\ pc = "loop"
    /\ frame'.tried = Append(frame.tried, t)

\* C3: once AddSingleton(x) has succeeded for type T, singletons[T] is x and
\* stays x in every later step, and every resolution of T, by GetInstance or
\* for a parameter of Invoke, returns x itself with a nil error.
C3_SingletonIdentity ==
    [][/\ \A t \in Types \cup {NilType} :
            /\ (RegistersFor(t) /\ out'.op = "AddSingleton" /\ out'.err = ErrNil)
                  => (t \in DOMAIN singletons' /\ singletons'[t] = out'.arg)
            /\ t \in DOMAIN singletons
                  => (t \in DOMAIN singletons' /\ singletons'[t] = singletons[t])
            /\ (Resolves(t) /\ t \in DOMAIN singletons)
                  => (out'.err = ErrNil /\ out'.instance = singletons[t])
            /\ (InvokeResolves(t) /\ t \in DOMAIN singletons)
                  => /\ frame'.err = ErrNil
                     /\ frame'.values = Append(frame.values, singletons[t])]_vars

\* GetInstance has returned the second of two equal-typed user values, the one
\* that was registered, after factories were called
C3_Witness ==
    /\ pc = "returned"
    /\ out.op = "GetInstance"
    /\ out.err = ErrNil
    /\ out.instance.kind = "obj"
    /\ out.instance.n = 2
    /\ nextId > 1

\* the step called the factory of t once, no other factory, and i is an
\* instance of t that no earlier resolution returned
FreshFrom(i, t) ==
    /\ factoryCalls' = [factoryCalls EXCEPT ![t] = @ + 1]
    /\ i.kind = "made"
    /\ i.type = t
    /\ i \notin DOMAIN returned

\* C4: every resolution of a transient type, by GetInstance or for a parameter
\* of Invoke, calls the type's factory exactly once and returns an instance
\* no other resolution returned, also within one Invoke.
C4_TransientFresh ==
    [][/\ \A t \in Types :
            /\ (Resolves(t) /\ t \in DOMAIN transients)
                  => FreshFrom(out'.instance, t)
            /\ (InvokeResolves(t) /\ t \in DOMAIN transients)
                  => /\ Len(frame'.values) = Len(frame.values) + 1
                     /\ FreshFrom(frame'.values[Len(frame'.values)], t)
                     /\ \A k \in 1..Len(frame.values) :
                           frame.values[k] # frame'.values[Len(frame'.values)]
       /\ \A i \in DOMAIN returned' : returned'[i] = 1]_vars

\* Invoke has returned after injecting two instances of one transient type
C4_Witness ==
    /\ pc = "done"
    /\ \E j, k \in 1..Len(frame.values) :
          /\ j < k
          /\ frame.values[j].kind = "made"
          /\ frame.values[k].kind = "made"
          /\ frame.values[j].type = frame.values[k].type

\* the instances Invoke resolved for the injected parameters, in order
Injected(f) == SubSeq(f.values, Len(f.args) + 1, Len(f.values))

IsDisposableTransient(v) == v.kind = "made" /\ v.type \in Closers

\* the disposable transient instances among them, in resolution order
DisposableTransients(f) == SelectSeq(Injected(f), IsDisposableTransient)

Reverse(q) == [k \in 1..Len(q) |-> q[Len(q) + 1 - k]]

\* C5: when Invoke has resolved every injected parameter and fn has returned,
\* every disposable transient instance resolved for the call has been closed
\* exactly once when Invoke returns; none is closed before fn has returned.
C5_ClosedOnceAfterCall ==
    LET d == DisposableTransients(frame) IN
    /\ (pc = "done" /\ frame.fnReturned)
          => \A k \in 1..Len(d) : closed[d[k]] = 1
    /\ (pc \in {"loop", "unwind", "done"} /\ ~frame.fnReturned /\ frame.err = ErrNil)
          => \A k \in 1..Len(d) : closed[d[k]] = 0

\* Invoke has returned after fn returned, and closed an injected instance
C5_Witness ==
    /\ pc = "done"
    /\ frame.fnReturned
    /\ frame.closeOrder # <<>>
    /\ DisposableTransients(frame) # <<>>

\* C6 as claimed: after fn returns the instances are released in the order
\* in which they were resolved, earlier parameter first.
C6_ReleasedInResolutionOrder ==
    (pc = "done" /\ frame.fnReturned)
        => frame.closeOrder = DisposableTransients(frame)

\* C6: after fn returns the deferred releasers run last resolved first: the
\* instance of a later declared parameter is released before the instance of
\* an earlier declared parameter.
C6_ReleasedInReverseOrder ==
    (pc = "done" /\ frame.fnReturned)
        => frame.closeOrder = Reverse(DisposableTransients(frame))

\* Invoke has returned after fn returned and released two instances
C6_Witness ==
    /\ pc = "done"
    /\ frame.fnReturned
    /\ Len(frame.closeOrder) >= 2

\* C7 as claimed: when the resolution of a parameter fails no instance
\* resolved for an earlier parameter of the call is closed.
C7_NoReleaseOnFailure ==
    (pc = "done" /\ frame.err = ErrTypeNotRegistered)
        => \A k \in 1..Len(DisposableTransients(frame)) :
              closed[DisposableTransients(frame)[k]] = 0

\* C7: when the resolution of a parameter fails the releasers deferred for
\* the earlier parameters do run: every disposable transient instance created
\* before the failure has been closed exactly once, last resolved first, when
\* Invoke returns the error.
C7_ReleasedOnFailure ==
    (pc = "done" /\ frame.err = ErrTypeNotRegistered)
        => /\ \A k \in 1..Len(DisposableTransients(frame)) :
                 closed[DisposableTransients(frame)[k]] = 1
           /\ frame.closeOrder = Reverse(DisposableTransients(frame))

\* Invoke has returned TypeNotRegistered after closing an earlier instance
C7_Witness ==
    /\ pc = "done"
    /\ frame.err = ErrTypeNotRegistered
    /\ frame.closeOrder # <<>>

\* C8: when the resolution of the j-th parameter fails, Invoke returns
\* TypeNotRegistered with nil results, fn is never called, and GetInstance is
\* asked for the parameters up to j only, j being the first unregistered one.
C8_AbortOnFirstFailure ==
    frame.err = ErrTypeNotRegistered
        => LET j == Len(frame.values) + 1 IN
           /\ pc \in {"unwind", "done"}
           /\ frame.results = NilResults
           /\ frame.calls = <<>>
           /\ ~frame.fnReturned
           /\ j <= Len(frame.fn.in)
           /\ frame.tried = SubSeq(frame.fn.in, Len(frame.args) + 1, j)
           /\ ~HasProvider(frame.fn.in[j])
           /\ \A k \in (Len(frame.args) + 1)..(j - 1) : HasProvider(frame.fn.in[k])

\* Invoke has returned TypeNotRegistered for a parameter that is followed by
\* a parameter of a transient type
C8_Witness ==
    /\ pc = "done"
    /\ frame.err = ErrTypeNotRegistered
    /\ Len(frame.values) + 1 < Len(frame.fn.in)
    /\ frame.fn.in[Len(frame.values) + 2] \in DOMAIN transients

\* C9 as claimed: AddTransient of a function that declares no return value, or
\* more than one, returns InvalidFactory and leaves the registry unchanged.
C9_InvalidFactoryUnlessOneReturn ==
    [][(/\ pc = "idle"
        /\ pc' = "returned"
        /\ out'.op = "AddTransient"
        /\ out'.arg.kind = "func"
        /\ Len(out'.arg.out) # 1)
          => (out'.err = ErrInvalidFactory /\ UNCHANGED registry)]_vars

\* C10 as claimed: AddTransient of a value that is not callable, nil included,
\* returns InvalidFactory and leaves the registry unchanged.
C10_InvalidFactoryForNonCallable ==
    [][(/\ pc = "idle"
        /\ pc' = "returned"
        /\ out'.op = "AddTransient"
        /\ out'.arg.kind # "func")
          => (out'.err = ErrInvalidFactory /\ UNCHANGED registry)]_vars

\* C11 as claimed: Invoke of a value that is not callable, nil included,
\* returns NotInvokable without resolving a type, calling fn or a factory, or
\* running a releaser.
C11_NotInvokableForNonCallable ==
    (pc = "done" /\ frame.fn.kind # "func")
        => /\ frame.err = ErrNotInvokable
           /\ frame.results = NilResults
           /\ frame.tried = <<>>
           /\ frame.calls = <<>>
           /\ frame.closeOrder = <<>>

\* C12: GetInstance of a type that has neither a singleton nor a transient
\* provider returns TypeNotRegistered and no instance, calls no factory and
\* changes nothing, whatever other types are registered; so does the
\* resolution of such a parameter inside Invoke.
C12_UnregisteredNotResolved ==
    [][\A t \in Types \cup {NilType} :
          /\ (Resolves(t) /\ ~HasProvider(t))
                => /\ out'.err = ErrTypeNotRegistered
                   /\ out'.instance = None
                   /\ UNCHANGED <<registry, heap>>
          /\ (InvokeResolves(t) /\ ~HasProvider(t))
                => /\ frame'.err = ErrTypeNotRegistered
                   /\ frame'.values = frame.values
                   /\ UNCHANGED <<registry, heap>>]_vars

\* GetInstance has refused a type while other types have providers
C12_Witness ==
    /\ pc = "returned"
    /\ out.op = "GetInstance"
    /\ out.err = ErrTypeNotRegistered
    /\ singletons # <<>>
    /\ transients # <<>>

\* Invoke has returned for a function whose leading arguments do not exceed
\* its parameters and whose remaining parameter types all have providers
C13_Case ==
    /\ pc = "done"
    /\ frame.fn.kind = "func"
    /\ Len(frame.args) <= Len(frame.fn.in)
    /\ \A j \in (Len(frame.args) + 1)..Len(frame.fn.in) : HasProvider(frame.fn.in[j])

\* fn itself panicked after it was called
FnPanicked(f) == f.calls # <<>> /\ ~f.fnReturned

\* fn was called exactly once, with the leading arguments followed by one
\* instance per remaining parameter, resolved in declaration order
C13_CalledOnceWithFrame ==
    LET n == Len(frame.args)
        k == Len(frame.fn.in)
    IN /\ frame.calls = <<frame.values>>
       /\ Len(frame.values) = k
       /\ SubSeq(frame.values, 1, n) = frame.args
       /\ frame.tried = SubSeq(frame.fn.in, n + 1, k)
       /\ \A j \in (n + 1)..k : ResolvesThrough(frame.values[j], frame.fn.in[j])
       /\ \A i, j \in (n + 1)..k :
             (i < j /\ frame.values[i].kind = "made" /\ frame.values[j].kind = "made")
                => frame.values[i].n < frame.values[j].n

\* Invoke returns the return values of fn in declaration order and no error
C13_ReturnsResults ==
    /\ frame.err = ErrNil
    /\ frame.results.isNil = FALSE
    /\ Len(frame.results.vals) = Len(frame.fn.out)
    /\ \A r \in 1..Len(frame.fn.out) :
          frame.results.vals[r] = [ret |-> r, type |-> frame.fn.out[r],
                                   from |-> frame.values]

\* C13 as claimed (for a function that does not itself panic): with N <= k
\* leading arguments and providers for the remaining parameters, fn is called
\* once with the assembled frame and Invoke returns its results and nil.
C13_InvokeCallsAndReturns ==
    (C13_Case /\ ~FnPanicked(frame))
        => (C13_CalledOnceWithFrame /\ C13_ReturnsResults)

\* C13: with N <= k leading arguments that reflect accepts for the first N
\* parameters (each of its parameter's type) and providers for the remaining
\* parameters, fn is called exactly once with the leading arguments followed
\* by one instance per remaining parameter resolved in declaration order;
\* when fn returns, Invoke returns its return values in order and nil.
C13_InvokeCallsAndReturnsWellTyped ==
    (/\ C13_Case
     /\ \A i \in 1..Len(frame.args) : TypeOf(frame.args[i]) = frame.fn.in[i])
        => /\ C13_CalledOnceWithFrame
           /\ frame.fnReturned => C13_ReturnsResults
           /\ ~frame.fnReturned => (frame.err = Panic /\ frame.results = NilResults)

\* Invoke has returned the result of a function called with a leading argument
\* and an injected instance
C13_Witness ==
    /\ C13_Case
    /\ frame.fnReturned
    /\ Len(frame.args) >= 1
    /\ Len(frame.values) > Len(frame.args)
    /\ Len(frame.results.vals) >= 1

\* C14: the container never calls Close on a singleton: whatever GetInstance
\* calls, releaser calls and Invoke calls have happened, no registered
\* singleton has a Close call.
C14_SingletonNeverClosed ==
    \A t \in DOMAIN singletons : singletons[t] \notin DOMAIN closed

\* Invoke has returned after injecting a singleton that is a Closer
C14_Witness ==
    /\ pc = "done"
    /\ frame.fnReturned
    /\ \E k \in (Len(frame.args) + 1)..Len(frame.values) :
          /\ frame.values[k].kind = "obj"
          /\ frame.values[k].type \in Closers
          /\ frame.values[k] = singletons[frame.values[k].type]

\* C18: when fn panics, every releaser deferred for the call still runs
\* exactly once before the panic leaves Invoke: each disposable transient
\* instance resolved for the call is closed exactly once.
C18_ReleasedOnPanic ==
    (pc = "done" /\ FnPanicked(frame))
        => /\ frame.err = Panic
           /\ frame.deferred = <<>>
           /\ \A k \in 1..Len(DisposableTransients(frame)) :
                 closed[DisposableTransients(frame)[k]] = 1
           /\ Len(frame.closeOrder) = Len(DisposableTransients(frame))

\* the panic of fn has left Invoke after an injected instance was closed
C18_Witness ==
    /\ pc = "done"
    /\ FnPanicked(frame)
    /\ frame.closeOrder # <<>>

\* the providers of the registry, as a set of <<type, lifetime, provider>>
Providers ==
    {<<t, "singleton", singletons[t]>> : t \in DOMAIN singletons}
        \cup {<<t, "transient", transients[t]>> : t \in DOMAIN transients}

\* C19: the registry only grows: a successful AddSingleton or AddTransient
\* adds exactly one entry, for a type that had none, and changes no other;
\* a failing registration, GetInstance and every step of Invoke leave both
\* maps unchanged; no entry is ever removed or replaced.
C19_RegistryOnlyGrows ==
    [][/\ ProvidersKept
       /\ Providers \subseteq Providers'
       /\ \A t \in Types \cup {NilType} :
            (RegistersFor(t) /\ out'.err = ErrNil)
               => /\ ~HasProvider(t)
                  /\ Cardinality(Providers') = Cardinality(Providers) + 1
                  /\ \E e \in Providers' \ Providers : e[1] = t /\ e[3] = out'.arg
       /\ (\/ pc # "idle"
           \/ pc' # "returned"
           \/ out'.op \notin {"AddSingleton", "AddTransient"}
           \/ out'.err # ErrNil)
              => UNCHANGED registry]_vars

\* a registration has just added a provider to a registry that had one
C19_Witness ==
    /\ pc = "returned"
    /\ out.op \in {"AddSingleton", "AddTransient"}
    /\ out.err = ErrNil
    /\ Cardinality(Providers) >= 2

\* the step is a call of NewRouter
CallsNewRouter == pc = "idle" /\ pc' = "returned" /\ out'.op = "NewRouter"

\* C15 as claimed: NewRouter returns TypeNotRegistered and no Router whenever
\* the engine type has no singleton registered, and a Router bound to the
\* registered engine otherwise.
C15_NewRouterNeedsSingleton ==
    [][CallsNewRouter
         => IF EngineType \notin DOMAIN singletons
            THEN /\ out'.err = ErrTypeNotRegistered
                 /\ out'.instance = None
                 /\ UNCHANGED router
            ELSE /\ out'.err = ErrNil
                 /\ router' = [bound |-> TRUE, g |-> singletons[EngineType]]]_vars

\* C15: NewRouter returns TypeNotRegistered and no Router whenever the engine
\* type has no provider at all, neither singleton nor transient; otherwise it
\* returns a Router bound to the engine GetInstance resolved: the registered
\* singleton, or a new engine built by the registered factory.
C15_NewRouterNeedsProvider ==
    [][CallsNewRouter
         => IF ~HasProvider(EngineType)
            THEN /\ out'.err = ErrTypeNotRegistered
                 /\ out'.instance = None
                 /\ UNCHANGED <<router, routes, heap>>
            ELSE /\ out'.err = ErrNil
                 /\ router'.bound
                 /\ router'.g = out'.instance
                 /\ ResolvesThrough(router'.g, EngineType)
                 /\ EngineType \in DOMAIN transients => router'.g \notin DOMAIN returned]_vars

\* NewRouter has failed on an injector that holds another singleton
C15_Witness ==
    /\ pc = "returned"
    /\ out.op = "NewRouter"
    /\ out.err = ErrTypeNotRegistered
    /\ singletons # <<>>

\* C16: a route registered through the Router method of a verb is the route
\* of that verb and path with that handler; every request the engine
\* dispatches to a registered verb and path makes the closure call Invoke
\* exactly once, with the handler registered for that verb and path and the
\* request context as the only leading argument, every further parameter of
\* the handler being resolved by the injector.
C16_DispatchInvokesHandler ==
    [][/\ \A verb \in Verbs :
            (pc = "idle" /\ pc' = "returned" /\ out'.op = verb /\ out'.err = ErrNil)
               => /\ <<verb, out'.t>> \notin DOMAIN routes
                  /\ routes' = MapPut(routes, <<verb, out'.t>>, out'.arg)
       /\ (pc = "idle" /\ request' # request /\ request'.found)
            => /\ <<request'.verb, request'.path>> \in DOMAIN routes
               /\ pc' = "serving"
               /\ request'.invokes = 0
       /\ pc = "serving"
            => /\ ENABLED RouteHandler
               /\ pc' \in {"loop", "done"}
               /\ request' = [request EXCEPT !.invokes = 1]
               /\ frame' = [NoFrame EXCEPT
                               !.fn = routes[<<request.verb, request.path>>],
                               !.args = <<request.c>>,
                               !.values = <<request.c>>]
       /\ (pc \in {"loop", "unwind"} /\ request.found)
            => /\ request' = request
               /\ frame'.fn = frame.fn
               /\ frame'.args = frame.args
       /\ (pc' = "done" /\ request'.found /\ frame'.calls # <<>>)
            => /\ frame'.calls = <<frame'.values>>
               /\ frame'.values[1] = request'.c
               /\ frame'.tried = SubSeq(frame'.fn.in, 2, Len(frame'.fn.in))
               /\ \A j \in 2..Len(frame'.fn.in) :
                     ResolvesThrough(frame'.values[j], frame'.fn.in[j])]_vars

\* a HEAD request has been served by a handler with an injected parameter
\* while the engine has a second route
C16_Witness ==
    /\ pc = "done"
    /\ request.found
    /\ request.verb = "HEAD"
    /\ frame.fnReturned
    /\ Len(frame.values) = 2
    /\ Cardinality(DOMAIN routes) >= 2

\* the header holds a token signed with the middleware's secret, not expired,
\* of its issuer and for its audience
ValidCredential ==
    /\ ctx.bearer.kind = "jwt"
    /\ ctx.bearer.key = mw.secret
    /\ ctx.bearer.iss = mw.issuer
    /\ ctx.bearer.aud = mw.audience
    /\ ~ctx.bearer.expired

\* C17: the middleware handles a request in exactly one of three ways: with
\* no credential the later handlers run once and no token is attached; with
\* a credential that fails verification or validation the status is 401, the
\* chain is aborted and no later handler runs; with a valid credential the
\* verified token is attached and the later handlers run once and find it.
C17_ThreeWays ==
    pc \in {"after", "served"}
        => IF ctx.bearer = NoBearer
           THEN /\ ctx.token = NoToken
                /\ ctx.status = 200
                /\ ~ctx.aborted
                /\ ctx.downstream = 1
                /\ ctx.seen = NoToken
           ELSE IF ~ValidCredential
           THEN /\ ctx.token = NoToken
                /\ ctx.status = 401
                /\ ctx.aborted
                /\ ctx.downstream = 0
           ELSE /\ ctx.token = [ctx.bearer EXCEPT !.kind = "token"]
                /\ ctx.status = 200
                /\ ~ctx.aborted
                /\ ctx.downstream = 1
                /\ ctx.seen = ctx.token

\* a request with a token of another issuer has been answered
C17_Witness ==
    /\ pc = "served"
    /\ ctx.bearer.kind = "jwt"
    /\ ctx.bearer.key = mw.secret
    /\ ~ctx.bearer.expired
    /\ ctx.bearer.iss # mw.issuer
    /\ ctx.status = 401

\* the argument list of the invocation f holds the instance i
Holds(f, i) == \E k \in 1..Len(f.values) : f.values[k] = i

\* every transient instance was handed out by one resolution and sits at one
\* place of one invocation's argument list
Unshared ==
    \A i \in DOMAIN returned :
        /\ returned[i] = 1
        /\ ~(Holds(frame, i) /\ Holds(parked.frame, i))
        /\ \A f \in {frame, parked.frame} :
              Cardinality({k \in 1..Len(f.values) : f.values[k] = i}) <= 1

\* no function is running with a transient instance that has been closed
NoneClosedWhileRunning ==
    /\ pc = "calling" =>
          \A i \in DOMAIN closed : Holds(frame, i) => closed[i] = 0
    /\ parked.pc = "calling" =>
          \A i \in DOMAIN closed : Holds(parked.frame, i) => closed[i] = 0

\* the instances this step closes
ClosedNow ==
    {i \in DOMAIN closed' : closed'[i] > (IF i \in DOMAIN closed THEN closed[i] ELSE 0)}

\* C20 as stated: under any interleaving of two goroutines' Invoke calls a
\* transient instance is passed to exactly one invocation, is closed only by
\* that invocation and only after that invocation's function has returned,
\* and no function runs with an instance that is already closed.
C20_ClosedOnlyAfterReturn ==
    [][/\ Unshared'
       /\ NoneClosedWhileRunning'
       /\ \A i \in ClosedNow : Holds(frame, i) /\ frame.fnReturned]_vars

\* C20 amended: ... is closed only by that invocation and only when that
\* invocation's function is not running any more: it has returned or
\* panicked, or it was never called because a resolution failed.
C20_ClosedOnlyWhenNotRunning ==
    [][/\ Unshared'
       /\ NoneClosedWhileRunning'
       /\ \A i \in ClosedNow :
             /\ Holds(frame, i)
             /\ pc = "unwind"
             /\ frame.fnReturned \/ frame.err # ErrNil]_vars

\* one goroutine's function is running with its own transient instance while
\* the other goroutine has closed the instance of its invocation
C20_Witness ==
    /\ pc = "calling"
    /\ \E i \in DOMAIN closed : Holds(frame, i) /\ IsCloser(i)
    /\ parked.pc = "unwind"
    /\ parked.frame.closeOrder # <<>>

====
